---- MODULE Spec2Model ----
(***************************************************************************)
(* A model of krABMaga's hypergraph field (engine/fields/hnetwork.rs) and  *)
(* of the workload subdivision of the distributed genetic exploration      *)
(* (explore/mpi/genetic.rs).                                               *)
(*                                                                         *)
(* Spec   : the HNetwork store driven by any single-threaded sequence of   *)
(*          its public operations.                                         *)
(* SpecGA : the root's DISPATCH loop for every population size and         *)
(*          process count within the bounds.                               *)
(***************************************************************************)
EXTENDS Integers, Sequences, FiniteSets, TLC

VARIABLES
    edges,      \* HNetwork.edges     : write state, id -> Vec<HEdge>
    redges,     \* HNetwork.redges    : read state,  id -> Vec<HEdge>
    nodes2id,   \* HNetwork.nodes2id  : write state, object (by Eq/Hash) -> id
    id2nodes,   \* HNetwork.id2nodes  : write state, id -> object
    rid2nodes,  \* HNetwork.rid2nodes : read state,  id -> object
    lastOp,     \* the last mutating or publishing operation, its arguments and result
    aborted,    \* TRUE once an operation has panicked (expect / index)
    nops,       \* the number of mutating and publishing operations called so far
    ga          \* the locals of explore_ga_distributed_mpi on the root

vars == <<edges, redges, nodes2id, id2nodes, rid2nodes, lastOp, aborted, nops, ga>>

-----------------------------------------------------------------------------
(* Bounds of the model *)

\* longest adjacency list add_edge may build
MaxDeg == 2

\* longest sequence of mutating and publishing operations explored
MaxOps == 5

\* largest population returned by init_population
MaxPop == 8

\* largest number of MPI processes
MaxProcs == 4

\* most generations the loop is followed for when generation_num is 0
MaxGen == 2

-----------------------------------------------------------------------------
(* Values *)

\* An object O is compared and hashed by its key; ver is the rest of its
\* payload, which update_node may replace.
Keys == {"a", "b"}

Vers == {0, 1}

Obj(k, v) == [key |-> k, ver |-> v]

\* the objects the operations are called with: a with two payloads, and b
Objects == {Obj("a", 0), Obj("a", 1), Obj("b", 0)}

\* nodes2id.len() never exceeds the number of distinct objects
Ids == 0 .. Cardinality(Keys)

None == <<>>

Some(x) == <<x>>

IsSome(o) == Len(o) = 1

Unwrap(o) == o[1]

\* HashMap helpers
EmptyMap == [x \in {} |-> 0]

MapInsert(m, k, v) == [x \in (DOMAIN m) \cup {k} |-> IF x = k THEN v ELSE m[x]]

MapRemove(m, k) == [x \in (DOMAIN m) \ {k} |-> m[x]]

MapGet(m, k) == IF k \in DOMAIN m THEN Some(m[k]) ELSE None

\* enum EdgeOptions
Simple == [kind |-> "Simple", l |-> None, w |-> None]

Labeled(l) == [kind |-> "Labeled", l |-> Some(l), w |-> None]

Weighted(w) == [kind |-> "Weighted", l |-> None, w |-> Some(w)]

WeightedLabeled(l, w) == [kind |-> "WeightedLabeled", l |-> Some(l), w |-> Some(w)]

\* the options add_edge is called with
EdgeOptions == {Simple, WeightedLabeled("x", 1)}

SeqToSet(s) == {s[i] : i \in 1 .. Len(s)}

\* HEdge::new : the id list becomes a HashSet, label and weight follow the option
HEdge_new(list_nodes, edge_options) ==
    [nodes  |-> SeqToSet(list_nodes),
     label  |-> IF edge_options.kind \in {"Labeled", "WeightedLabeled"}
                THEN edge_options.l ELSE None,
     weight |-> IF edge_options.kind \in {"Weighted", "WeightedLabeled"}
                THEN edge_options.w ELSE None]

\* impl PartialEq for HEdge : equal iff the node sets are equal
HEdge_eq(e1, e2) == e1.nodes = e2.nodes

\* longest endpoint list passed to add_edge / get_edge / remove_edge: every
\* set of objects can be listed, and one object twice
MaxEndpoints == Cardinality(Keys)

\* the endpoint lists the operations are called with
SeqsUpTo(S, n) == UNION {[1 .. k -> S] : k \in 0 .. n}

NodeLists == SeqsUpTo({Obj(k, 0) : k \in Keys}, MaxEndpoints)

\* the orders in which a HashSet<u32> may be iterated
Perms == {p \in [1 .. Cardinality(Ids) -> Ids] : SeqToSet(p) = Ids}

-----------------------------------------------------------------------------
(* Helpers shared by the operations *)

\* the `for n in nodes { match nodes2id.get(n) ... }` loop: Some(ids), or None
\* as soon as one endpoint is unregistered
ResolveIds(nodes) ==
    IF \A i \in 1 .. Len(nodes) : nodes[i].key \in DOMAIN nodes2id
    THEN Some([i \in 1 .. Len(nodes) |-> nodes2id[nodes[i].key]])
    ELSE None

\* edges.iter().position(|entry| *entry == to_remove) : 0 when there is none
Position(list, to_remove) ==
    IF \E i \in 1 .. Len(list) : HEdge_eq(list[i], to_remove)
    THEN CHOOSE i \in 1 .. Len(list) :
            /\ HEdge_eq(list[i], to_remove)
            /\ \A j \in 1 .. i - 1 : ~HEdge_eq(list[j], to_remove)
    ELSE 0

\* Vec::remove(index)
VecRemove(list, i) == [j \in 1 .. Len(list) - 1 |-> IF j < i THEN list[j] ELSE list[j + 1]]

\* the record of a call: its name, arguments and result, the node id it
\* resolved or assigned, and (for a publish) the call it follows
OpId(name, arg, ret, uid) ==
    [op |-> name, arg |-> arg, ret |-> ret, uid |-> uid, prev |-> None]

Op(name, arg, ret) == OpId(name, arg, ret, None)

-----------------------------------------------------------------------------
(* HNetwork: the read operations, as functions of the current state *)

\* HNetwork::get_edge : scan the read adjacency list of the first endpoint
get_edge(nodes) ==
    IF Len(nodes) = 0 THEN None
    ELSE LET r == ResolveIds(nodes) IN
         IF ~IsSome(r) THEN None
         ELSE LET ids   == Unwrap(r)
                  edge  == HEdge_new(ids, Simple)
              IN  IF ids[1] \in DOMAIN redges
                  THEN LET uedges == redges[ids[1]]
                           pos    == Position(uedges, edge)
                       IN  IF pos # 0 THEN Some(uedges[pos]) ELSE None
                  ELSE None

\* HNetwork::get_edges : the read adjacency list of u, found through nodes2id
get_edges(u) ==
    IF u.key \notin DOMAIN nodes2id THEN None
    ELSE MapGet(redges, nodes2id[u.key])

\* HNetwork::get_object : the read id -> object mapping
get_object(uid) == MapGet(rid2nodes, uid)

-----------------------------------------------------------------------------
(* HNetwork: the loops of the removing operations *)

\* the body of `for id in ids` in remove_edge and remove_edge_with_hedge:
\* get_mut(id).expect(..) panics on an id with no adjacency list, otherwise the
\* first entry equal to to_remove is removed from that list
RECURSIVE RemoveLoop(_, _, _, _, _)
RemoveLoop(ids, i, to_remove, E, removed) ==
    IF i > Len(ids) THEN [edges |-> E, removed |-> removed, panic |-> FALSE]
    ELSE IF ids[i] \notin DOMAIN E
         THEN [edges |-> E, removed |-> removed, panic |-> TRUE]
         ELSE LET pos == Position(E[ids[i]], to_remove) IN
              IF pos # 0
              THEN RemoveLoop(ids, i + 1, to_remove,
                              [E EXCEPT ![ids[i]] = VecRemove(@, pos)],
                              Some(E[ids[i]][pos]))
              ELSE RemoveLoop(ids, i + 1, to_remove, E, removed)

\* HNetwork::remove_edge_with_hedge : the ids are visited in the iteration
\* order of the HashSet to_remove.nodes, given by order
remove_edge_with_hedge(E, to_remove, order) ==
    RemoveLoop(SelectSeq(order, LAMBDA id : id \in to_remove.nodes), 1,
               to_remove, E, None)

\* the `for hedge in to_remove` loop of remove_object
RECURSIVE RemoveHedges(_, _, _, _)
RemoveHedges(list, i, E, order) ==
    IF i > Len(list) THEN [edges |-> E, panic |-> FALSE]
    ELSE LET r == remove_edge_with_hedge(E, list[i], order) IN
         IF r.panic THEN [edges |-> r.edges, panic |-> TRUE]
         ELSE RemoveHedges(list, i + 1, r.edges, order)

\* a faulty add_edge loop: the edge is stored with the first endpoint only
AddLoopFirstOnly(ids, i, edge_options, E) ==
    LET id == ids[1]
        e  == HEdge_new(ids, edge_options)
    IN  IF id \in DOMAIN E
        THEN [E EXCEPT ![id] = Append(@, e)]
        ELSE MapInsert(E, id, <<e>>)

\* the `for id in ids` loop of add_edge: push onto the list of id, or insert
\* a new one-element list
RECURSIVE AddLoop(_, _, _, _)
AddLoop(ids, i, edge_options, E) ==
    IF i > Len(ids) THEN E
    ELSE LET id == ids[i]
             e  == HEdge_new(ids, edge_options)
         IN  AddLoop(ids, i + 1, edge_options,
                     IF id \in DOMAIN E
                     THEN [E EXCEPT ![id] = Append(@, e)]
                     ELSE MapInsert(E, id, <<e>>))

\* the number of entries add_edge would push onto the list of id
Pushes(ids, id) == Cardinality({i \in 1 .. Len(ids) : ids[i] = id})

\* the adjacency lists stay within MaxDeg
WithinDeg(ids) ==
    \A id \in SeqToSet(ids) :
        (IF id \in DOMAIN edges THEN Len(edges[id]) ELSE 0) + Pushes(ids, id) <= MaxDeg

-----------------------------------------------------------------------------
(* HNetwork: the operations *)

\* an operation is called on a store no operation has panicked on, within the
\* explored length
Live == ~aborted /\ nops < MaxOps

\* a mutating or publishing operation is counted
Counted == nops' = nops + 1

\* HNetwork::new
InitNet ==
    /\ edges = EmptyMap
    /\ redges = EmptyMap
    /\ nodes2id = EmptyMap
    /\ id2nodes = EmptyMap
    /\ rid2nodes = EmptyMap
    /\ lastOp = Op("new", <<>>, None)
    /\ aborted = FALSE
    /\ nops = 0

\* the endpoints before the first unregistered one
RegisteredPrefix(nodes) ==
    LET bad == {i \in 1 .. Len(nodes) : nodes[i].key \notin DOMAIN nodes2id}
        n   == IF bad = {} THEN Len(nodes)
               ELSE (CHOOSE i \in bad : \A j \in bad : i <= j) - 1
    IN  [i \in 1 .. n |-> nodes[i]]

\* a faulty add_edge: each endpoint is resolved and given its copy in one
\* loop, so the endpoints before an unregistered one keep a copy
add_edge_eager(nodes, edge_options) ==
    /\ Live
    /\ Counted
    /\ LET ok  == Len(nodes) # 0 /\ IsSome(ResolveIds(nodes))
           ids == Unwrap(ResolveIds(RegisteredPrefix(nodes)))
       IN  /\ WithinDeg(ids)
           /\ edges' = AddLoop(ids, 1, edge_options, edges)
           /\ lastOp' = Op("add_edge", <<nodes, edge_options>>, Some(ok))
    /\ UNCHANGED <<redges, nodes2id, id2nodes, rid2nodes, aborted, ga>>

\* HNetwork::add_edge
add_edge(nodes, edge_options) ==
    /\ Live
    /\ Counted
    /\ LET r == ResolveIds(nodes) IN
       IF Len(nodes) = 0 \/ ~IsSome(r)
       THEN /\ lastOp' = Op("add_edge", <<nodes, edge_options>>, Some(FALSE))
            /\ UNCHANGED edges
       ELSE /\ WithinDeg(Unwrap(r))
            /\ edges' = AddLoop(Unwrap(r), 1, edge_options, edges)
            /\ lastOp' = Op("add_edge", <<nodes, edge_options>>, Some(TRUE))
    /\ UNCHANGED <<redges, nodes2id, id2nodes, rid2nodes, aborted, ga>>

\* a faulty add_node: an object already stored under the id is kept
add_node_keep(u) ==
    /\ Live
    /\ Counted
    /\ LET uid == Cardinality(DOMAIN nodes2id) IN
       /\ nodes2id' = MapInsert(nodes2id, u.key, uid)
       /\ id2nodes' = IF uid \in DOMAIN id2nodes THEN id2nodes
                      ELSE MapInsert(id2nodes, uid, u)
       /\ edges' = IF uid \in DOMAIN edges THEN edges ELSE MapInsert(edges, uid, <<>>)
       /\ lastOp' = OpId("add_node", <<u>>, None, Some(uid))
    /\ UNCHANGED <<redges, rid2nodes, aborted, ga>>

\* HNetwork::add_node
add_node(u) ==
    /\ Live
    /\ Counted
    /\ LET uid == Cardinality(DOMAIN nodes2id) IN
       /\ nodes2id' = MapInsert(nodes2id, u.key, uid)
       /\ id2nodes' = MapInsert(id2nodes, uid, u)
       /\ edges' = IF uid \in DOMAIN edges THEN edges ELSE MapInsert(edges, uid, <<>>)
       /\ lastOp' = OpId("add_node", <<u>>, None, Some(uid))
    /\ UNCHANGED <<redges, rid2nodes, aborted, ga>>

\* a call of HNetwork::get_edge
call_get_edge(nodes) ==
    /\ Live
    /\ UNCHANGED vars

\* a call of HNetwork::get_edges
call_get_edges(u) ==
    /\ Live
    /\ UNCHANGED vars

\* a call of HNetwork::get_object
call_get_object(uid) ==
    /\ Live
    /\ UNCHANGED vars

\* a faulty remove_all_edges: the read generation is cleared as well
remove_all_edges_both ==
    /\ Live
    /\ Counted
    /\ edges' = EmptyMap
    /\ redges' = EmptyMap
    /\ lastOp' = Op("remove_all_edges", <<>>, None)
    /\ UNCHANGED <<nodes2id, id2nodes, rid2nodes, aborted, ga>>

\* HNetwork::remove_all_edges
remove_all_edges ==
    /\ Live
    /\ Counted
    /\ edges' = EmptyMap
    /\ lastOp' = Op("remove_all_edges", <<>>, None)
    /\ UNCHANGED <<redges, nodes2id, id2nodes, rid2nodes, aborted, ga>>

\* HNetwork::remove_edge
remove_edge(nodes) ==
    /\ Live
    /\ Counted
    /\ LET r == ResolveIds(nodes) IN
       IF Len(nodes) = 0 \/ ~IsSome(r)
       THEN /\ lastOp' = Op("remove_edge", <<nodes>>, None)
            /\ UNCHANGED <<edges, aborted>>
       ELSE LET ids == Unwrap(r)
                res == RemoveLoop(ids, 1, HEdge_new(ids, Simple), edges, None)
            IN  /\ edges' = res.edges
                /\ aborted' = res.panic
                /\ lastOp' = Op("remove_edge", <<nodes>>,
                                IF res.panic THEN None ELSE res.removed)
    /\ UNCHANGED <<redges, nodes2id, id2nodes, rid2nodes, ga>>

\* HNetwork::remove_object : the edges to remove are those get_edges returns.
\* The order in which remove_edge_with_hedge visits a HashSet decides the
\* state only when the call panics half way.
remove_object(u) ==
    /\ Live
    /\ Counted
    /\ IF u.key \notin DOMAIN nodes2id
       THEN /\ lastOp' = Op("remove_object", <<u>>, Some(FALSE))
            /\ UNCHANGED <<edges, nodes2id, id2nodes, aborted>>
       ELSE LET uid       == nodes2id[u.key]
                to_remove == get_edges(u)
                list      == IF IsSome(to_remove) THEN Unwrap(to_remove) ELSE <<>>
                any       == CHOOSE order \in Perms : TRUE
            IN  IF RemoveHedges(list, 1, edges, any).panic
                THEN /\ \E order \in Perms :
                            edges' = RemoveHedges(list, 1, edges, order).edges
                     /\ aborted' = TRUE
                     /\ lastOp' = Op("remove_object", <<u>>, None)
                     /\ UNCHANGED <<nodes2id, id2nodes>>
                ELSE /\ edges' = RemoveHedges(list, 1, edges, any).edges
                     /\ id2nodes' = MapRemove(id2nodes, uid)
                     /\ nodes2id' = MapRemove(nodes2id, u.key)
                     /\ lastOp' = OpId("remove_object", <<u>>, Some(TRUE), Some(uid))
                     /\ UNCHANGED aborted
    /\ UNCHANGED <<redges, rid2nodes, ga>>

\* HNetwork::update_node
update_node(u) ==
    /\ Live
    /\ Counted
    /\ IF u.key \in DOMAIN nodes2id /\ nodes2id[u.key] \in DOMAIN id2nodes
       THEN id2nodes' = [id2nodes EXCEPT ![nodes2id[u.key]] = u]
       ELSE UNCHANGED id2nodes
    /\ lastOp' = Op("update_node", <<u>>, None)
    /\ UNCHANGED <<edges, redges, nodes2id, rid2nodes, aborted, ga>>

\* the record of update()/lazy_update(), with the call it follows
Publish(name) ==
    [op |-> name, arg |-> <<>>, ret |-> None, uid |-> None,
     prev |-> Some([lastOp EXCEPT !.prev = None])]

\* <HNetwork as Field>::update
update ==
    /\ Live
    /\ Counted
    /\ redges' = edges
    /\ rid2nodes' = id2nodes
    /\ lastOp' = Publish("update")
    /\ UNCHANGED <<edges, nodes2id, id2nodes, aborted, ga>>

\* a faulty lazy_update: the write generation is merged into the read
\* generation, whose other entries stay
lazy_update_merge ==
    /\ Live
    /\ Counted
    /\ redges' = [id \in (DOMAIN edges) \cup (DOMAIN redges) |->
                    IF id \in DOMAIN edges THEN edges[id] ELSE redges[id]]
    /\ rid2nodes' = [id \in (DOMAIN id2nodes) \cup (DOMAIN rid2nodes) |->
                    IF id \in DOMAIN id2nodes THEN id2nodes[id] ELSE rid2nodes[id]]
    /\ lastOp' = Publish("lazy_update")
    /\ UNCHANGED <<edges, nodes2id, id2nodes, aborted, ga>>

\* <HNetwork as Field>::lazy_update
lazy_update ==
    /\ Live
    /\ Counted
    /\ redges' = edges
    /\ rid2nodes' = id2nodes
    /\ lastOp' = Publish("lazy_update")
    /\ UNCHANGED <<edges, nodes2id, id2nodes, aborted, ga>>

GAIdle == ga = [pc |-> "idle"]

Init == InitNet /\ GAIdle

Next ==
    \/ \E nodes \in NodeLists, o \in EdgeOptions : add_edge(nodes, o)
    \/ \E u \in Objects : add_node(u)
    \/ \E nodes \in NodeLists : call_get_edge(nodes)
    \/ \E k \in Keys : call_get_edges(Obj(k, 0))
    \/ \E uid \in Ids : call_get_object(uid)
    \/ remove_all_edges
    \/ \E nodes \in NodeLists : remove_edge(nodes)
    \/ \E k \in Keys : remove_object(Obj(k, 0))
    \/ \E u \in Objects : update_node(u)
    \/ update
    \/ lazy_update

Spec == Init /\ [][Next]_vars

-----------------------------------------------------------------------------
(* explore_ga_distributed_mpi: the root's generational loop and DISPATCH *)

\* the individuals init_population returns: individual k is the k-th string
InitPopulation(n) == [k \in 1 .. n |-> k - 1]

\* a faulty subdivision: the extra element goes to every processor once the
\* population does not divide evenly
sub_population_size_all(population_size_per_process, remainder) ==
    IF remainder >= 0
    THEN population_size_per_process + 1
    ELSE population_size_per_process

\* the workload subdivision of one processor
sub_population_size(population_size_per_process, remainder) ==
    IF remainder > 0
    THEN population_size_per_process + 1
    ELSE population_size_per_process

\* 0-based indexing of a Vec: Some(v[idx]), or None when idx is out of bounds
VecAt(v, idx) == IF idx >= 0 /\ idx < Len(v) THEN Some(v[idx + 1]) ELSE None

\* `for j in 0..sub { population_params.push(population[i * per + j].clone()) }`
RECURSIVE FillParams(_, _, _, _, _)
FillParams(params, population, base, j, sub) ==
    IF j >= sub THEN [params |-> params, panic |-> FALSE]
    ELSE LET x == VecAt(population, base + j) IN
         IF IsSome(x)
         THEN FillParams(Append(params, Unwrap(x)), population, base, j + 1, sub)
         ELSE [params |-> params, panic |-> TRUE]

\* `for p in 0..sub { send(population_params[i * per + p]) }` after the send
\* of the shard size, all addressed to rank i. val names the individual the
\* buffer is built from; the bytes that travel are those behind a pointer to a
\* temporary and are left unspecified: no process reads them as an individual.
RECURSIVE SendShard(_, _, _, _, _, _)
SendShard(sent, params, rank, base, p, sub) ==
    IF p >= sub THEN [sent |-> sent, panic |-> FALSE]
    ELSE LET x == VecAt(params, base + p) IN
         IF IsSome(x)
         THEN SendShard(Append(sent, [to |-> rank, kind |-> "individual", val |-> Unwrap(x)]),
                        params, rank, base, p + 1, sub)
         ELSE [sent |-> sent, panic |-> TRUE]

\* the fitness the $fitness callback gives the individuals of a run (the same
\* to all of them); $desired_fitness is 1
FitnessValues == {0, 1}
desired_fitness == 1

\* the number of individuals the $selection callback of a run leaves in
\* pop_fitness
SelectionSizes == {1, 2}

\* BufferGA::new(generation, index, fitness)
BufferGA_new(generation, index, fitness) ==
    [generation |-> generation, index |-> index, fitness |-> fitness]

\* the ranks of the processes other than the root (root_rank = 0)
Workers(procs) == 1 .. procs - 1

\* a process other than the root before `loop`
InitWorker ==
    [pc |-> "loop_head",
     generation |-> 0,
     flag |-> FALSE,
     my_pop_size |-> Some(0)]

\* the state of the root before `loop`: population = init_population()
InitRoot(n, procs, gens) ==
    [pc |-> "loop_head",
     num_procs |-> procs,
     generation_num |-> gens,
     generation |-> 0,
     flag |-> FALSE,
     population |-> InitPopulation(n),
     population_size |-> n,
     population_size_per_process |-> 0,
     remainder |-> 0,
     i |-> 0,
     my_pop_size |-> 0,
     samples_count |-> <<>>,
     population_params |-> <<>>,
     sent |-> <<>>,
     all_results |-> <<>>,
     best_individual |-> Some(BufferGA_new(0, 0, 0)),
     workers |-> [r \in Workers(procs) |-> InitWorker],
     chan |-> [r \in 0 .. procs - 1 |-> <<>>],
     mpi_aborted |-> FALSE]

\* the inputs of one run that no process state holds: the callbacks and the
\* way the MPI library completes a standard-mode send (buffered at once, or
\* only when the destination has posted the matching receive)
RunInputs(state, eager, fitness, selection) ==
    [f \in DOMAIN state \cup {"eager", "fitness", "selection"} |->
        IF f = "eager" THEN eager
        ELSE IF f = "fitness" THEN fitness
        ELSE IF f = "selection" THEN selection
        ELSE state[f]]

\* the head of `loop`: leave on the generation cap or the flag, otherwise start
\* the next generation and the subdivision of its workload
LoopHead ==
    /\ ga.pc = "loop_head"
    /\ ~ga.mpi_aborted
    /\ IF ga.generation_num # 0 /\ ga.generation = ga.generation_num
       THEN ga' = [ga EXCEPT !.pc = "done"]
       ELSE IF ga.flag
       THEN ga' = [ga EXCEPT !.pc = "done"]
       ELSE /\ ga.generation < MaxGen
            /\ ga' = [ga EXCEPT
                        !.pc = "dispatch",
                        !.generation = @ + 1,
                        !.samples_count = <<>>,
                        !.population_size_per_process = ga.population_size \div ga.num_procs,
                        !.remainder = ga.population_size % ga.num_procs,
                        !.i = 0]
    /\ UNCHANGED <<edges, redges, nodes2id, id2nodes, rid2nodes, lastOp, aborted, nops>>

\* one iteration of `for i in 0..num_procs` on the root. The sends are
\* standard-mode sends: buffered they complete at once and the messages wait
\* in the channel of rank i; unbuffered the first of them, addressed to rank 0,
\* waits for a receive the root never posts.
DispatchStep ==
    /\ ga.pc = "dispatch"
    /\ ~ga.mpi_aborted
    /\ ga.i < ga.num_procs
    /\ LET per    == ga.population_size_per_process
           sub    == sub_population_size(per, ga.remainder)
           filled == FillParams(ga.population_params, ga.population, ga.i * per, 0, sub)
           size   == [to |-> ga.i, kind |-> "size", val |-> sub]
           sends  == SendShard(Append(ga.sent, size), filled.params, ga.i, ga.i * per, 0, sub)
           posted == SubSeq(sends.sent, Len(ga.sent) + 1, Len(sends.sent))
           block  == ~ga.eager /\ ~filled.panic
       IN  ga' = [ga EXCEPT
                    !.remainder = IF @ > 0 THEN @ - 1 ELSE @,
                    !.samples_count = Append(@, sub),
                    !.my_pop_size = IF ga.i = 0 THEN sub ELSE @,
                    !.population_params = filled.params,
                    !.sent = IF filled.panic \/ block THEN @ ELSE sends.sent,
                    !.chan[ga.i] = IF filled.panic \/ block THEN @ ELSE @ \o posted,
                    !.i = IF block THEN @ ELSE @ + 1,
                    !.pc = IF filled.panic THEN "panicked"
                           ELSE IF block THEN "blocked_send"
                           ELSE IF sends.panic THEN "panicked"
                           ELSE IF ga.i + 1 = ga.num_procs THEN "loop_head"
                           ELSE "dispatch"]
    /\ UNCHANGED <<edges, redges, nodes2id, id2nodes, rid2nodes, lastOp, aborted, nops>>

\* the head of `loop` on the process of rank r > 0, up to its receive
WorkerLoopHead(r) ==
    /\ ~ga.mpi_aborted
    /\ r \in Workers(ga.num_procs)
    /\ ga.workers[r].pc = "loop_head"
    /\ LET w == ga.workers[r] IN
       IF ga.generation_num # 0 /\ w.generation = ga.generation_num
       THEN ga' = [ga EXCEPT !.workers[r].pc = "done"]
       ELSE IF w.flag
       THEN ga' = [ga EXCEPT !.workers[r].pc = "done"]
       ELSE /\ w.generation < MaxGen
            /\ ga' = [ga EXCEPT !.workers[r].pc = "receive",
                                !.workers[r].generation = @ + 1]
    /\ UNCHANGED <<edges, redges, nodes2id, id2nodes, rid2nodes, lastOp, aborted, nops>>

\* `world.any_process().receive::<usize>()` on rank r: it takes the oldest
\* message addressed to r, whatever the root sent it as. A buffer of u8 taken
\* as a usize either fails the receive, which ends the MPI job, or leaves an
\* unspecified value in my_pop_size.
WorkerReceive(r) ==
    /\ ~ga.mpi_aborted
    /\ r \in Workers(ga.num_procs)
    /\ ga.workers[r].pc = "receive"
    /\ ga.chan[r] # <<>>
    /\ LET m == Head(ga.chan[r]) IN
       IF m.kind = "size"
       THEN ga' = [ga EXCEPT !.chan[r] = Tail(@),
                             !.workers[r].my_pop_size = Some(m.val),
                             !.workers[r].pc = "loop_head"]
       ELSE \E fails \in BOOLEAN :
               ga' = [ga EXCEPT !.chan[r] = Tail(@),
                                !.workers[r].my_pop_size = None,
                                !.workers[r].pc = IF fails THEN "receive" ELSE "loop_head",
                                !.mpi_aborted = fails]
    /\ UNCHANGED <<edges, redges, nodes2id, id2nodes, rid2nodes, lastOp, aborted, nops>>

\* the runs from construction whose callbacks are drawn from the given sets
InitRun(fitnesses, selections) ==
    /\ InitNet
    /\ \E n \in 0 .. MaxPop, procs \in 1 .. MaxProcs, gens \in 0 .. MaxGen :
       \E eager \in BOOLEAN, fitness \in fitnesses, selection \in selections :
            ga = RunInputs(InitRoot(n, procs, gens), eager, fitness, selection)

\* the runs whose callbacks give no cause to terminate: every fitness is below
\* desired_fitness and the selection leaves more than one individual
InitGA == InitRun(FitnessValues \ {desired_fitness}, {s \in SelectionSizes : s > 1})

\* the runs with any of the callbacks
InitCallbacks == InitRun(FitnessValues, SelectionSizes)

NextGA ==
    \/ LoopHead
    \/ DispatchStep
    \/ \E r \in 1 .. MaxProcs - 1 : WorkerLoopHead(r)
    \/ \E r \in 1 .. MaxProcs - 1 : WorkerReceive(r)

SpecGA == InitGA /\ [][NextGA]_vars

SpecCallbacks == InitCallbacks /\ [][NextGA]_vars

-----------------------------------------------------------------------------
(* Properties of the workload subdivision *)

RECURSIVE SumSeq(_)
SumSeq(q) == IF q = <<>> THEN 0 ELSE Head(q) + SumSeq(Tail(q))

\* the root has computed the shard sizes of a whole generation
Dispatched == ga.pc \in {"loop_head", "done"} /\ ga.generation >= 1

\* C10: the shard sizes of a generation are one per process, sum to the
\* population size N, differ by at most 1, and exactly the first N mod P are
\* the larger size floor(N/P)+1; N = 7, P = 3 gives <<3, 2, 2>>.
C10_ShardSizes ==
    Dispatched =>
        LET N == ga.population_size
            P == ga.num_procs
            c == ga.samples_count
        IN  /\ Len(c) = P
            /\ SumSeq(c) = N
            /\ \A x, y \in 1 .. P : c[x] - c[y] <= 1
            /\ \A x \in 1 .. P :
                    c[x] = IF x <= N % P THEN (N \div P) + 1 ELSE N \div P
            /\ (N = 7 /\ P = 3) => c = <<3, 2, 2>>

\* 7 individuals were divided among 3 processes
C10_Witness ==
    /\ Dispatched
    /\ ga.population_size = 7
    /\ ga.num_procs = 3
    /\ ga.samples_count = <<3, 2, 2>>


-----------------------------------------------------------------------------
(* Properties of the distributed generational loop *)

\* the serialized individuals among the messages the root has sent
Payloads(q) == SelectSeq(q, LAMBDA m : m.kind = "individual")

\* the serialized individuals the root sent in its latest generation, in the
\* order of the sends, which is the order of the ranks
LatestShards ==
    LET pay == Payloads(ga.sent)
        N   == ga.population_size
    IN  SubSeq(pay, Len(pay) - N + 1, Len(pay))

\* C11: the individuals sent in one generation to the ranks 0 .. P-1,
\* concatenated in rank order, are exactly the population in its order: no
\* individual is skipped, sent twice or reordered.
C11_ShardsPartitionPopulation ==
    Dispatched =>
        /\ Len(LatestShards) = ga.population_size
        /\ [k \in 1 .. Len(LatestShards) |-> LatestShards[k].val] = ga.population
        /\ \A k, l \in 1 .. Len(LatestShards) :
                k <= l => LatestShards[k].to <= LatestShards[l].to

\* the records the root holds for generation g, in history order
RecordsOf(g) == SelectSeq(ga.all_results, LAMBDA rec : rec.generation = g)

\* C12: at the end of a generation the root holds the gathered records of that
\* generation, and their corrected indices are exactly 0 .. N-1, without
\* duplicates and in population order, whatever the number of processes.
C12_GatheredIndices ==
    Dispatched =>
        LET recs == RecordsOf(ga.generation) IN
        [k \in 1 .. Len(recs) |-> recs[k].index] =
            [k \in 1 .. ga.population_size |-> k - 1]

\* the generation every process is in
Generations ==
    {ga.generation} \cup {ga.workers[r].generation : r \in Workers(ga.num_procs)}

\* C13: the processes pass the generation boundary together: no process is in
\* generation g+2 (or past it) while another is still in generation g, and
\* the processes that have left the loop left it in the same generation.
C13_LockStep ==
    /\ \A g, h \in Generations : g - h <= 1
    /\ \A r \in Workers(ga.num_procs) :
            (ga.pc = "done" /\ ga.workers[r].pc = "done")
                => ga.workers[r].generation = ga.generation

\* C14: when the population of generation 1 holds an individual whose fitness
\* is at least desired_fitness, no process starts generation 2, and at the end
\* of generation 1 the root has set the termination flag and its best-ever
\* record is a record of generation 1 with that fitness.
C14_DesiredFitnessTerminates ==
    (ga.fitness >= desired_fitness /\ ga.population_size >= 1) =>
        /\ \A g \in Generations : g <= 1
        /\ Dispatched =>
                /\ ga.flag
                /\ Unwrap(ga.best_individual).generation = 1
                /\ Unwrap(ga.best_individual).fitness = ga.fitness

\* the first record of q, in history order, whose fitness no record exceeds
FirstMax(q) ==
    LET k == CHOOSE k \in 1 .. Len(q) :
                /\ \A l \in 1 .. Len(q) : q[l].fitness <= q[k].fitness
                /\ \A l \in 1 .. k - 1 : q[l].fitness < q[k].fitness
    IN  q[k]

\* C15: at the end of every generation over a population that is not empty,
\* records have been gathered and the best-ever record is the first of them,
\* in history order, that attains the maximum fitness.
C15_BestEverIsRunningMax ==
    (Dispatched /\ ga.population_size >= 1) =>
        /\ ga.all_results # <<>>
        /\ ga.best_individual = Some(FirstMax(ga.all_results))

\* every process has left the generational loop
AllDone ==
    /\ ga.pc = "done"
    /\ \A r \in Workers(ga.num_procs) : ga.workers[r].pc = "done"

\* C16: under a cap generation_num = G > 0 a process leaves the loop only
\* after exactly G generations and the run can only come to rest with every
\* process out of the loop; under generation_num = 0 no process leaves the
\* loop on the cap.
C16_GenerationCap ==
    /\ ga.pc = "done" => (ga.generation_num > 0 /\ ga.generation = ga.generation_num)
    /\ \A r \in Workers(ga.num_procs) :
            ga.workers[r].pc = "done" =>
                (ga.generation_num > 0 /\ ga.workers[r].generation = ga.generation_num)
    /\ (ga.generation_num > 0 /\ ~ENABLED NextGA) => AllDone

\* C17: when the selection callback leaves at most one individual, the run
\* ends in its first generation for every process: no process starts
\* generation 2, and the run comes to rest only with every process out of the
\* loop, none of them waiting for a message.
C17_PopulationCollapseTerminates ==
    ga.selection <= 1 =>
        /\ \A g \in Generations : g <= 1
        /\ ~ENABLED NextGA => AllDone

\* C18: over an empty population no process starts a generation and the root
\* sends nothing; with more processes than individuals the shards beyond the
\* N-th are empty and no individual is sent to their ranks.
C18_DegenerateCases ==
    /\ ga.population_size = 0 =>
            /\ \A g \in Generations : g = 0
            /\ ga.sent = <<>>
    /\ (Dispatched /\ ga.num_procs > ga.population_size) =>
            /\ \A x \in ga.population_size + 1 .. ga.num_procs : ga.samples_count[x] = 0
            /\ \A k \in 1 .. Len(ga.sent) :
                    ga.sent[k].kind = "individual" => ga.sent[k].to < ga.population_size

\* C19: every message is taken by its addressee as the kind it was sent as:
\* no receive fails, no worker takes a serialized individual for its shard
\* size, the root is never held in a send that no receive matches, and when
\* the run comes to rest no message is left unreceived, those addressed to
\* rank 0 included.
C19_DispatchProtocol ==
    /\ ~ga.mpi_aborted
    /\ \A r \in Workers(ga.num_procs) : IsSome(ga.workers[r].my_pop_size)
    /\ ga.pc # "blocked_send"
    /\ ~ENABLED NextGA => \A r \in 0 .. ga.num_procs - 1 : ga.chan[r] = <<>>

\* C24: every generation is dispatched from the current population: the shard
\* sizes sum to its size, no index is out of bounds, and the send buffer the
\* individuals are read from holds only what this generation put there, so
\* that nothing sent is carried over from an earlier generation.
C24_DispatchFromCurrentPopulation ==
    /\ ga.pc # "panicked"
    /\ Dispatched =>
            /\ SumSeq(ga.samples_count) = Len(ga.population)
            /\ Len(ga.population_params) = Len(ga.population)

-----------------------------------------------------------------------------
(* Properties of the HNetwork store *)

Writers == {"add_node", "add_edge", "remove_edge", "remove_object",
            "update_node", "remove_all_edges"}

Publishers == {"update", "lazy_update"}

\* this step is a call of a mutating operation
WriterStep == nops' = nops + 1 /\ lastOp'.op \in Writers

\* this step is a call of update() or lazy_update()
PublishStep == nops' = nops + 1 /\ lastOp'.op \in Publishers

\* the last call is name, published by update() right after it
FollowedByUpdate(name) ==
    /\ lastOp.op = "update"
    /\ IsSome(lastOp.prev)
    /\ Unwrap(lastOp.prev).op = name

\* the last call is name, published by update() or lazy_update() right after it
FollowedByPublish(name) ==
    /\ lastOp.op \in Publishers
    /\ IsSome(lastOp.prev)
    /\ Unwrap(lastOp.prev).op = name

Published == Unwrap(lastOp.prev)

\* the ids some registered object maps to
RegisteredIds == {nodes2id[k] : k \in DOMAIN nodes2id}

\* C1: read isolation. No call of a mutating operation changes the result of
\* get_edge, get_edges or get_object for any argument: between two publishes
\* every read returns what it returned right after the last publish.
C1_ReadIsolation ==
    [][WriterStep =>
        /\ \A nodes \in NodeLists : get_edge(nodes)' = get_edge(nodes)
        /\ \A u \in Objects : get_edges(u)' = get_edges(u)
        /\ \A uid \in Ids : get_object(uid)' = get_object(uid)]_vars

\* C2: writers only mutate the write mapping. A call of a mutating operation,
\* successful or not, leaves redges and rid2nodes unchanged; a step that
\* changes either is a call of update() or lazy_update().
C2_WritersKeepReadGeneration ==
    [][/\ WriterStep => (redges' = redges /\ rid2nodes' = rid2nodes)
       /\ (redges' # redges \/ rid2nodes' # rid2nodes) => PublishStep]_vars

\* a mutating call, one that failed included, has left the write generation
\* different from a non-empty read generation
C2_Witness ==
    /\ lastOp.op = "add_edge"
    /\ lastOp.ret = Some(FALSE)
    /\ redges # EmptyMap
    /\ edges # redges
    /\ id2nodes # rid2nodes

\* C3: update() and lazy_update() replace the read generation wholesale. After
\* either, redges is exactly the edges and rid2nodes exactly the id2nodes of
\* the state it was called in, and the write generation is unchanged; so both
\* lead from one state to the same store.
C3_PublishReplaces ==
    [][PublishStep =>
        /\ redges' = edges
        /\ rid2nodes' = id2nodes
        /\ UNCHANGED <<edges, nodes2id, id2nodes>>]_vars

\* lazy_update() has published the removal of all edges and of an object: the
\* read generation holds no adjacency list and a smaller id mapping than ids
\* were assigned
C3_Witness ==
    /\ FollowedByPublish("remove_all_edges")
    /\ lastOp.op = "lazy_update"
    /\ redges = EmptyMap
    /\ rid2nodes # EmptyMap
    /\ nops >= 4

\* C4: after a successful add_edge(endpoints, options) and update(), get_edge
\* finds an edge with the node-id set of those endpoints through every
\* ordering of the endpoints, whichever endpoint comes first.
C4_AddEdgeFoundFromAnyEndpoint ==
    (FollowedByUpdate("add_edge") /\ Published.ret = Some(TRUE)) =>
        LET nodes == Published.arg[1]
            ids   == Unwrap(ResolveIds(nodes))
        IN  \A q \in NodeLists :
                (Len(q) >= 1 /\ SeqToSet(q) = SeqToSet(nodes)) =>
                    /\ IsSome(get_edge(q))
                    /\ Unwrap(get_edge(q)).nodes = SeqToSet(ids)

\* an edge on two distinct node ids was added and published
C4_Witness ==
    /\ FollowedByUpdate("add_edge")
    /\ Published.ret = Some(TRUE)
    /\ Cardinality(SeqToSet(Unwrap(ResolveIds(Published.arg[1])))) = 2

\* C5: removing a node removes every edge incident to it. After a successful
\* remove_object(u) and update(), get_edges(u) is absent and no other node's
\* adjacency list, written or read, holds an edge whose node set has u's id.
C5_RemoveObjectCascades ==
    (FollowedByUpdate("remove_object") /\ Published.ret = Some(TRUE)) =>
        LET u   == Published.arg[1]
            uid == Unwrap(Published.uid)
        IN  /\ get_edges(u) = None
            /\ \A id \in (DOMAIN edges) \ {uid} : \A i \in 1 .. Len(edges[id]) :
                    uid \notin edges[id][i].nodes
            /\ \A id \in (DOMAIN redges) \ {uid} : \A i \in 1 .. Len(redges[id]) :
                    uid \notin redges[id][i].nodes

\* C6: node ids are unique. No two registered objects share an id.
C6_NodeIdsUnique ==
    \A k1, k2 \in DOMAIN nodes2id : nodes2id[k1] = nodes2id[k2] => k1 = k2

\* C7: add_node(obj) followed by get_object(id), with id the id assigned to
\* obj, yields obj.
C7_AddNodeThenGetObject ==
    lastOp.op = "add_node" =>
        get_object(Unwrap(lastOp.uid)) = Some(lastOp.arg[1])

\* C7, amended: add_node(obj) followed by update() or lazy_update() and then
\* get_object(id), with id the id assigned to obj, yields obj.
C7_AddNodePublishedThenGetObject ==
    FollowedByPublish("add_node") =>
        get_object(Unwrap(Published.uid)) = Some(Published.arg[1])

\* an object was registered under an id that was assigned before, and published
C7_Witness ==
    /\ FollowedByPublish("add_node")
    /\ Published.arg[1] = Obj("a", 1)
    /\ Unwrap(Published.uid) = 1
    /\ "b" \in DOMAIN nodes2id
    /\ nodes2id["b"] = 1

\* C8: add_edge returns false exactly when the endpoint list is empty or an
\* endpoint is unregistered, and then the whole store is unchanged.
C8_AddEdgeFailsWithoutEffect ==
    [][(nops' = nops + 1 /\ lastOp'.op = "add_edge") =>
        LET nodes == lastOp'.arg[1] IN
        /\ (lastOp'.ret = Some(FALSE)) <=>
                (Len(nodes) = 0 \/ ~IsSome(ResolveIds(nodes)))
        /\ (lastOp'.ret = Some(FALSE)) =>
                UNCHANGED <<edges, redges, nodes2id, id2nodes, rid2nodes>>]_vars

\* add_edge failed on a registered endpoint followed by an unregistered one
C8_Witness ==
    /\ lastOp.op = "add_edge"
    /\ lastOp.ret = Some(FALSE)
    /\ Len(lastOp.arg[1]) = 2
    /\ lastOp.arg[1][1].key \in DOMAIN nodes2id
    /\ lastOp.arg[1][2].key \notin DOMAIN nodes2id
    /\ nodes2id[lastOp.arg[1][1].key] \in DOMAIN edges

\* C9: lookup failures are never escalated. No operation aborts.
C9_NoOperationAborts == ~aborted

\* C20: a successful add_edge appends exactly one HEdge to the written
\* adjacency list of each distinct endpoint, also when the list of endpoints
\* names a node more than once.
C20_OneCopyPerEndpoint ==
    [][(nops' = nops + 1 /\ lastOp'.op = "add_edge" /\ lastOp'.ret = Some(TRUE)) =>
            LET ids == Unwrap(ResolveIds(lastOp'.arg[1])) IN
            \A id \in SeqToSet(ids) :
                Len(edges'[id]) = (IF id \in DOMAIN edges THEN Len(edges[id]) ELSE 0) + 1]_vars

\* the number of entries of the written adjacency list of id that equal e
Copies(E, id, e) ==
    IF id \in DOMAIN E
    THEN Cardinality({k \in 1 .. Len(E[id]) : HEdge_eq(E[id][k], e)})
    ELSE 0

\* this step is a call of remove_edge
RemoveEdgeStep == nops' = nops + 1 /\ lastOp'.op = "remove_edge"

\* C21: remove_edge on registered endpoints whose lists each hold the edge
\* once returns it and leaves no endpoint's written list with a matching
\* entry; remove_edge on an empty list, on an unregistered endpoint or with no
\* matching stored edge returns none and leaves the whole store unchanged.
C21_RemoveEdge ==
    [][RemoveEdgeStep =>
        LET nodes == lastOp'.arg[1]
            r     == ResolveIds(nodes)
        IN  IF Len(nodes) = 0 \/ ~IsSome(r)
            THEN lastOp'.ret = None /\ UNCHANGED <<edges, redges, nodes2id, id2nodes, rid2nodes, aborted>>
            ELSE LET ids == Unwrap(r)
                     e   == HEdge_new(ids, Simple)
                 IN  /\ (\A id \in SeqToSet(ids) : Copies(edges, id, e) = 0) =>
                            /\ lastOp'.ret = None
                            /\ UNCHANGED <<edges, redges, nodes2id, id2nodes, rid2nodes, aborted>>
                     /\ (\A id \in SeqToSet(ids) : Copies(edges, id, e) = 1) =>
                            /\ IsSome(lastOp'.ret)
                            /\ HEdge_eq(Unwrap(lastOp'.ret), e)
                            /\ \A id \in SeqToSet(ids) : Copies(edges', id, e) = 0]_vars

\* this step is a successful call of add_edge
AddEdgeStep ==
    nops' = nops + 1 /\ lastOp'.op = "add_edge" /\ lastOp'.ret = Some(TRUE)

\* the written adjacency list of id, empty when there is none
ListOf(E, id) == IF id \in DOMAIN E THEN E[id] ELSE <<>>

\* C22: add_edge never deduplicates and remove_edge removes one entry at a
\* time. A successful add_edge leaves on each endpoint's written list the
\* entries it had, in their order, and one more entry for the node set;
\* remove_edge, when every endpoint's list holds the node set, takes exactly
\* the earliest such entry off each list and returns an entry of that node
\* set; get_edge returns the earliest entry of the node set on the read list
\* of the first endpoint.
C22_Shadowing ==
    [][/\ AddEdgeStep =>
            LET ids == Unwrap(ResolveIds(lastOp'.arg[1]))
                e   == HEdge_new(ids, lastOp'.arg[2])
            IN  \A id \in SeqToSet(ids) :
                    /\ Copies(edges', id, e) = Copies(edges, id, e) + 1
                    /\ edges'[id] = Append(ListOf(edges, id), e)
       /\ (RemoveEdgeStep /\ Len(lastOp'.arg[1]) > 0 /\ IsSome(ResolveIds(lastOp'.arg[1]))) =>
            LET ids == Unwrap(ResolveIds(lastOp'.arg[1]))
                e   == HEdge_new(ids, Simple)
            IN  (\A id \in SeqToSet(ids) : Copies(edges, id, e) >= 1) =>
                    /\ IsSome(lastOp'.ret)
                    /\ \A id \in SeqToSet(ids) :
                            /\ Copies(edges', id, e) = Copies(edges, id, e) - 1
                            /\ edges'[id] = VecRemove(edges[id], Position(edges[id], e))
       /\ \A q \in NodeLists :
            (Len(q) > 0 /\ IsSome(ResolveIds(q))) =>
                LET ids  == Unwrap(ResolveIds(q))
                    e    == HEdge_new(ids, Simple)
                    list == ListOf(redges, ids[1])
                IN  get_edge(q) = IF Position(list, e) # 0
                                  THEN Some(list[Position(list, e)])
                                  ELSE None]_vars

\* C23: right after a publish get_edges returns a list for every registered
\* node and is absent for every unregistered one; when the publish follows
\* remove_all_edges() the list of every registered node is empty, not absent.
C23_GetEdgesOfRegisteredNode ==
    lastOp.op \in Publishers =>
        \A u \in Objects :
            /\ u.key \in DOMAIN nodes2id => IsSome(get_edges(u))
            /\ u.key \notin DOMAIN nodes2id => get_edges(u) = None
            /\ (FollowedByPublish("remove_all_edges") /\ u.key \in DOMAIN nodes2id)
                    => get_edges(u) = Some(<<>>)

====
